---- MODULE Spec2Model ----
(***************************************************************************)
(* Note storage service (server.js): an Express application that maps     *)
(* HTTP requests onto files "<cache>/<name>.txt".                          *)
(*                                                                         *)
(* Strings are sequences of one-character strings, so that the string      *)
(* operations of the code (template literal, path.join, endsWith,          *)
(* replace) are computed character by character.  A resolved path is the   *)
(* sequence of its segments.  File contents are sequences of encoded       *)
(* code points (what writeFileSync stores), texts are sequences of UTF-16  *)
(* code units (what a JavaScript string holds).                            *)
(***************************************************************************)
EXTENDS Integers, Sequences, FiniteSets

VARIABLES
    phase,      \* "boot" (before line 18), "listening" (after line 214), "exited"
    exitCode,   \* the argument of process.exit, -1 while the process runs
    dirs,       \* the directories of the file system (resolved paths)
    files,      \* the regular files: resolved path -> stored content
    req,        \* the request whose handler ran last
    res,        \* the response that handler sent
    was,        \* what a Read of the request's name answered before it ran
    conns       \* requests in flight: connection -> request, answer

vars == <<phase, exitCode, dirs, files, req, res, was, conns>>

----------------------------------------------------------------------------
(* Bounds *)

\* longest text a request carries
MaxTextLen == 2
\* number of connections that can hold a request in flight at once
MaxInFlight == 2

----------------------------------------------------------------------------
(* Strings and paths *)

\* the '.txt' literal of the handlers
TXT == <<".", "t", "x", "t">>

\* the --cache option: "/r/c"
cache == <<"/", "r", "/", "c">>

RECURSIVE SplitAcc(_, _, _)
SplitAcc(s, cur, acc) ==
    IF s = <<>> THEN Append(acc, cur)
    ELSE IF Head(s) = "/" THEN SplitAcc(Tail(s), <<>>, Append(acc, cur))
    ELSE SplitAcc(Tail(s), Append(cur, Head(s)), acc)

\* the segments of a path string, split at "/"
Split(s) == SplitAcc(s, <<>>, <<>>)

RECURSIVE NormAcc(_, _)
NormAcc(segs, acc) ==
    IF segs = <<>> THEN acc
    ELSE LET h == Head(segs) IN
         IF h = <<>> \/ h = <<".">> THEN NormAcc(Tail(segs), acc)
         ELSE IF h = <<".", ".">>
              THEN NormAcc(Tail(segs),
                           IF acc = <<>> THEN acc ELSE SubSeq(acc, 1, Len(acc) - 1))
              ELSE NormAcc(Tail(segs), Append(acc, h))

\* path resolution of an absolute path string: "", "." and ".." segments
\* are resolved lexically
Normalize(s) == NormAcc(Split(s), <<>>)

\* path.join(a, b): the non-empty arguments joined by "/" and normalized
PathJoin(a, b) == IF b = <<>> THEN Normalize(a) ELSE Normalize(a \o <<"/">> \o b)


Parent(p) == SubSeq(p, 1, Len(p) - 1)
Base(p) == p[Len(p)]

\* String.prototype.endsWith
EndsWith(s, suf) ==
    /\ Len(s) >= Len(suf)
    /\ SubSeq(s, Len(s) - Len(suf) + 1, Len(s)) = suf

\* the positions at which pat occurs in s
Occurrences(s, pat) ==
    {i \in 1..(Len(s) - Len(pat) + 1) : SubSeq(s, i, i + Len(pat) - 1) = pat}

\* String.prototype.replace with a string pattern: the first occurrence only
ReplaceFirst(s, pat, rep) ==
    IF Occurrences(s, pat) = {} THEN s
    ELSE LET i == CHOOSE k \in Occurrences(s, pat) :
                      \A j \in Occurrences(s, pat) : k <= j
         IN SubSeq(s, 1, i - 1) \o rep \o SubSeq(s, i + Len(pat), Len(s))

----------------------------------------------------------------------------
(* Texts and their encoding *)

\* code units: "x" an ASCII character, "H" a high and "L" a low surrogate
Units == {"x", "H", "L"}

RECURSIVE utf8Encode(_)
\* string -> stored content: a surrogate pair is one code point "P", a lone
\* surrogate is stored as the replacement character "R"
utf8Encode(s) ==
    IF s = <<>> THEN <<>>
    ELSE IF Head(s) = "H" /\ Len(s) >= 2 /\ s[2] = "L"
         THEN <<"P">> \o utf8Encode(SubSeq(s, 3, Len(s)))
    ELSE IF Head(s) \in {"H", "L"} THEN <<"R">> \o utf8Encode(Tail(s))
    ELSE <<Head(s)>> \o utf8Encode(Tail(s))

RECURSIVE utf8Decode(_)
\* stored content -> string
utf8Decode(b) ==
    IF b = <<>> THEN <<>>
    ELSE IF Head(b) = "P" THEN <<"H", "L">> \o utf8Decode(Tail(b))
    ELSE <<Head(b)>> \o utf8Decode(Tail(b))

\* the strings a body parser delivers: decoded from the bytes of the
\* request, hence without lone surrogates
WellFormed(s) == utf8Decode(utf8Encode(s)) = s

SeqsUpTo(S, n) == UNION {[1..k -> S] : k \in 0..n}

Texts == {s \in SeqsUpTo(Units, MaxTextLen) : WellFormed(s)}

----------------------------------------------------------------------------
(* Names *)

NameA    == <<"a">>                          \* a
NameDotA == <<".", "/", "a">>                \* ./a
NameSubA == <<"d", "/", "a">>                \* d/a
NameUpA  == <<".", ".", "/", "a">>           \* ../a
NameTxtA == <<".", "t", "x", "t", "a">>      \* .txta

Names == {NameA, NameDotA, NameSubA, NameUpA, NameTxtA}

\* names without a path separator
FlatNames == {n \in Names : \A i \in 1..Len(n) : n[i] # "/"}

\* a handler's notePath: path.join(cache, `${name}.txt`)
NotePathOf(name) == PathJoin(cache, name \o TXT)

\* the notePath of the names above, computed once
NotePaths == [n \in Names |-> NotePathOf(n)]

NotePath(name) == IF name \in Names THEN NotePaths[name] ELSE NotePathOf(name)

----------------------------------------------------------------------------
(* The fs module *)

fsExistsSync(fs, ds, p) == p \in ds \/ p \in DOMAIN fs

\* whether fs.writeFileSync(p, data) throws: ENOENT / ENOTDIR / EISDIR
WriteThrows(fs, ds, p) == p = <<>> \/ Parent(p) \notin ds \/ p \in ds

\* variant of fsWriteFileSync: the data is appended (fs.appendFileSync)
fsAppendFileSync(fs, p, data) ==
    [q \in DOMAIN fs \cup {p} |->
        IF q # p THEN fs[q]
        ELSE IF p \in DOMAIN fs THEN fs[p] \o utf8Encode(data) ELSE utf8Encode(data)]

\* fs.writeFileSync(p, data): the file is created or truncated, and holds
\* the encoded data
fsWriteFileSync(fs, p, data) ==
    [q \in DOMAIN fs \cup {p} |-> IF q = p THEN utf8Encode(data) ELSE fs[q]]

fsReadFileSync(fs, p) == utf8Decode(fs[p])

fsUnlinkSync(fs, p) == [q \in DOMAIN fs \ {p} |-> fs[q]]

\* the entries fs.readdirSync(d) returns, as a set
DirEntries(fs, ds, d) ==
    {Base(p) : p \in {q \in (DOMAIN fs \cup ds) : q # <<>> /\ Parent(q) = d}}

\* the orders in which readdirSync may return them
Listings(S) ==
    {f \in [1..Cardinality(S) -> S] : \A i, j \in 1..Cardinality(S) : f[i] = f[j] => i = j}

----------------------------------------------------------------------------
(* Handlers: (file system, request) -> (file system, response) *)

Response(fs, status, body) == [files |-> fs, status |-> status, body |-> body]

\* a handler threw: Express answers 500
Thrown(fs) == Response(fs, 500, <<"Internal Server Error">>)

\* variant of CreateNote: the file is written before the existence check
CreateNoteWriteFirst(fs, ds, noteName, noteText) ==
    LET notePath == NotePath(noteName) IN
    IF WriteThrows(fs, ds, notePath) THEN Thrown(fs)
    ELSE IF fsExistsSync(fs, ds, notePath)
         THEN Response(fsWriteFileSync(fs, notePath, noteText), 400,
                       <<"Note already exists">>)
         ELSE Response(fsWriteFileSync(fs, notePath, noteText), 201, <<"Note created">>)

\* variant of CreateNote: the existence check is missing
CreateNoteNoCheck(fs, ds, noteName, noteText) ==
    LET notePath == NotePath(noteName) IN
    IF WriteThrows(fs, ds, notePath) THEN Thrown(fs)
    ELSE Response(fsWriteFileSync(fs, notePath, noteText), 201, <<"Note created">>)

\* app.post('/write')
CreateNote(fs, ds, noteName, noteText) ==
    LET notePath == NotePath(noteName) IN
    IF fsExistsSync(fs, ds, notePath)
    THEN Response(fs, 400, <<"Note already exists">>)
    ELSE IF WriteThrows(fs, ds, notePath) THEN Thrown(fs)
    ELSE Response(fsWriteFileSync(fs, notePath, noteText), 201, <<"Note created">>)

\* app.get('/notes/:name')
ReadNote(fs, ds, name) ==
    LET notePath == NotePath(name) IN
    IF ~fsExistsSync(fs, ds, notePath)
    THEN Response(fs, 404, <<"Note not found">>)
    ELSE IF notePath \in ds THEN Thrown(fs)
    ELSE Response(fs, 200, fsReadFileSync(fs, notePath))

\* variant of UpdateNote: the existence check is missing
UpdateNoteCreates(fs, ds, name, body) ==
    LET notePath == NotePath(name) IN
    IF WriteThrows(fs, ds, notePath) THEN Thrown(fs)
    ELSE Response(fsWriteFileSync(fs, notePath, body), 200, <<"Note updated">>)

\* app.put('/notes/:name')
UpdateNote(fs, ds, name, body) ==
    LET notePath == NotePath(name) IN
    IF ~fsExistsSync(fs, ds, notePath)
    THEN Response(fs, 404, <<"Note not found">>)
    ELSE IF WriteThrows(fs, ds, notePath) THEN Thrown(fs)
    ELSE Response(fsWriteFileSync(fs, notePath, body), 200, <<"Note updated">>)

\* variant of DeleteNote: a missing note is not an error
DeleteNoteIgnoresMissing(fs, ds, name) ==
    LET notePath == NotePath(name) IN
    IF notePath \in ds THEN Thrown(fs)
    ELSE IF notePath \in DOMAIN fs
         THEN Response(fsUnlinkSync(fs, notePath), 200, <<"Note deleted">>)
         ELSE Response(fs, 200, <<"Note deleted">>)

\* variant of DeleteNote: the unlink is missing
DeleteNoteKeepsFile(fs, ds, name) ==
    LET notePath == NotePath(name) IN
    IF ~fsExistsSync(fs, ds, notePath)
    THEN Response(fs, 404, <<"Note not found">>)
    ELSE Response(fs, 200, <<"Note deleted">>)

\* app.delete('/notes/:name')
DeleteNote(fs, ds, name) ==
    LET notePath == NotePath(name) IN
    IF ~fsExistsSync(fs, ds, notePath)
    THEN Response(fs, 404, <<"Note not found">>)
    ELSE IF notePath \in ds THEN Thrown(fs)
    ELSE Response(fsUnlinkSync(fs, notePath), 200, <<"Note deleted">>)

RECURSIVE CollectNotes(_, _, _, _)
\* the forEach of app.get('/notes'): ok = FALSE when readFileSync threw
CollectNotes(fs, ds, listing, notes) ==
    IF listing = <<>> THEN [ok |-> TRUE, notes |-> notes]
    ELSE LET file == Head(listing) IN
         IF ~EndsWith(file, TXT) THEN CollectNotes(fs, ds, Tail(listing), notes)
         ELSE IF PathJoin(cache, file) \in ds THEN [ok |-> FALSE, notes |-> notes]
         ELSE CollectNotes(fs, ds, Tail(listing),
                  Append(notes, [name |-> ReplaceFirst(file, TXT, <<>>),
                                 text |-> fsReadFileSync(fs, PathJoin(cache, file))]))

\* app.get('/notes'), listing being what readdirSync(cache) returned
ListNotes(fs, ds, listing) ==
    LET r == CollectNotes(fs, ds, listing, <<>>) IN
    IF r.ok THEN Response(fs, 200, r.notes) ELSE Thrown(fs)


----------------------------------------------------------------------------
(* State *)

Root == <<>>
CacheDir == Normalize(cache)

NoRequest == [op |-> "none", name |-> <<>>, text |-> <<>>]
NoResponse == [status |-> 0, body |-> <<>>]
Request(op, name, text) == [op |-> op, name |-> name, text |-> text]
Sent(r) == [status |-> r.status, body |-> r.body]
Answer(status, body) == [status |-> status, body |-> body]

Conns == 1..MaxInFlight
Idle == [st |-> "idle", rq |-> NoRequest, rs |-> NoResponse, lost |-> FALSE]

\* the process starts with the cache directory present or not; the parent
\* directory of the cache exists and no note is stored
Init ==
    /\ phase = "boot"
    /\ exitCode = -1
    /\ dirs \in {{Root, Parent(CacheDir)}, {Root, Parent(CacheDir), CacheDir}}
    /\ files = <<>>
    /\ req = NoRequest
    /\ res = NoResponse
    /\ was = NoResponse
    /\ conns = [c \in Conns |-> Idle]

\* variant of CacheMissing: the check of lines 18-21 is missing
CacheCheckSkipped(ds) == FALSE

\* line 18: !fs.existsSync(cache)
CacheMissing(ds) == ~fsExistsSync(<<>>, ds, CacheDir)

\* lines 18-21: process.exit(1)
StartupFail ==
    /\ phase = "boot"
    /\ CacheMissing(dirs)
    /\ phase' = "exited"
    /\ exitCode' = 1
    /\ UNCHANGED <<dirs, files, req, res, was, conns>>

\* lines 23-216: the routes are registered and app.listen is called
Listen ==
    /\ phase = "boot"
    /\ ~CacheMissing(dirs)
    /\ phase' = "listening"
    /\ UNCHANGED <<exitCode, dirs, files, req, res, was, conns>>

\* what GET /notes/<name> answers in the current state
Peek(n) == Sent(ReadNote(files, dirs, n))
Stored(n) == Peek(n).status = 200

\* A handler is synchronous: it runs from its first to its last statement
\* without another callback of the process in between, so every execution
\* of the server is a sequence of whole handler runs.
Serve(rq, r) ==
    /\ phase = "listening"
    /\ files' = r.files
    /\ req' = rq
    /\ res' = Sent(r)
    /\ was' = IF rq.op = "list" THEN NoResponse ELSE Peek(rq.name)
    /\ UNCHANGED <<phase, exitCode, dirs, conns>>

Create(n, t) == Serve(Request("create", n, t), CreateNote(files, dirs, n, t))
Read(n)      == Serve(Request("read", n, <<>>), ReadNote(files, dirs, n))
Update(n, t) == Serve(Request("update", n, t), UpdateNote(files, dirs, n, t))
Delete(n)    == Serve(Request("delete", n, <<>>), DeleteNote(files, dirs, n))
ListAll ==
    \E listing \in Listings(DirEntries(files, dirs, CacheDir)) :
        Serve(Request("list", <<>>, <<>>), ListNotes(files, dirs, listing))

Next ==
    \/ StartupFail
    \/ Listen
    \/ \E n \in Names, t \in Texts : Create(n, t)
    \/ \E n \in Names : Read(n)
    \/ \E n \in Names, t \in Texts : Update(n, t)
    \/ \E n \in Names : Delete(n)
    \/ ListAll

Spec == Init /\ [][Next]_vars

----------------------------------------------------------------------------
(* Requests in flight *)

\* Express parses a request's body asynchronously (upload.none(),
\* express.text()) and then calls the route's handler; between its arrival
\* and that call the request is in flight, together with the requests of
\* the other connections.  The handler itself is one synchronous call.

RaceNames == {NameA, NameDotA}
RaceTexts == {<<"x">>, <<"x", "x">>}
RaceRequests ==
    {Request("create", n, t) : n \in RaceNames, t \in RaceTexts}
    \cup {Request("update", n, t) : n \in RaceNames, t \in RaceTexts}
    \cup {Request("delete", n, <<>>) : n \in RaceNames}

\* the route of a request
Route(fs, ds, rq) ==
    CASE rq.op = "create" -> CreateNote(fs, ds, rq.name, rq.text)
      [] rq.op = "update" -> UpdateNote(fs, ds, rq.name, rq.text)
      [] rq.op = "delete" -> DeleteNote(fs, ds, rq.name)
      [] rq.op = "read"   -> ReadNote(fs, ds, rq.name)

\* a request arrives on a connection that has none in flight
Accept(c, rq) ==
    /\ phase = "listening"
    /\ conns[c].st # "pending"
    /\ conns' = [conns EXCEPT ![c] = [st |-> "pending", rq |-> rq,
                                      rs |-> NoResponse, lost |-> FALSE]]
    /\ UNCHANGED <<phase, exitCode, dirs, files, req, res, was>>

\* The handler of a request in flight runs, as a whole.  lost is history:
\* a Create in flight has lost when a Create of the same file was answered
\* 201 while it was in flight and no Delete of that file was answered 200
\* since.
Dispatch(c) ==
    /\ phase = "listening"
    /\ conns[c].st = "pending"
    /\ LET rq == conns[c].rq
           r == Route(files, dirs, rq)
           rival(d) == /\ d # c
                       /\ conns[d].st = "pending"
                       /\ conns[d].rq.op = "create"
                       /\ NotePath(conns[d].rq.name) = NotePath(rq.name)
       IN /\ files' = r.files
          /\ conns' = [d \in Conns |->
                IF d = c THEN [conns[c] EXCEPT !.st = "answered", !.rs = Sent(r)]
                ELSE IF rival(d) /\ rq.op = "create" /\ r.status = 201
                     THEN [conns[d] EXCEPT !.lost = TRUE]
                ELSE IF rival(d) /\ rq.op = "delete" /\ r.status = 200
                     THEN [conns[d] EXCEPT !.lost = FALSE]
                ELSE conns[d]]
    /\ UNCHANGED <<phase, exitCode, dirs, req, res, was>>

NextRace ==
    \/ StartupFail
    \/ Listen
    \/ \E c \in Conns, rq \in RaceRequests : Accept(c, rq)
    \/ \E c \in Conns : Dispatch(c)

SpecRace == Init /\ [][NextRace]_vars

----------------------------------------------------------------------------
(* Properties *)

StoredAfter(n) == ReadNote(files', dirs', n).status = 200
PeekAfter(n) == Sent(ReadNote(files', dirs', n))

\* the step runs the handler of a request of this kind (req' is the request)
Served(op) == phase = "listening" /\ req'.op = op

\* C1: a Create of a name that is not stored answers 201, and a Read of
\* the name issued next answers 200 with exactly the text created.
CreateThenRead ==
    [][(Served("create") /\ ~Stored(req'.name)) =>
          (res'.status = 201 /\ PeekAfter(req'.name) = Answer(200, req'.text))]_vars

\* C2: a Create of a stored name answers 400 and leaves the stored
\* content of the name as it was.
CreateOnStoredRejected ==
    [][(Served("create") /\ Stored(req'.name)) =>
          /\ res'.status = 400
          /\ PeekAfter(req'.name) = Peek(req'.name)
          /\ files'[NotePath(req'.name)] = files[NotePath(req'.name)]]_vars

CreateOnStoredWitness ==
    /\ req.op = "create"
    /\ res.status = 400
    /\ was.status = 200
    /\ was.body # req.text
    /\ Peek(req.name) = was

\* C3: Read, Update and Delete of a name that is not stored answer 404 and
\* leave the whole store as it was.
MissingNoteNotFound ==
    [][((Served("read") \/ Served("update") \/ Served("delete"))
            /\ ~Stored(req'.name)) =>
          (res'.status = 404 /\ files' = files /\ dirs' = dirs)]_vars

MissingNoteWitness ==
    /\ req.op \in {"read", "update", "delete"}
    /\ res.status = 404
    /\ was.status = 404
    /\ DOMAIN files # {}

\* C4: after an Update answered 200, a Read of the name issued next returns
\* exactly the text of that Update, whatever the note held before.
UpdateThenRead ==
    [][(Served("update") /\ res'.status = 200) =>
          (Stored(req'.name) /\ PeekAfter(req'.name) = Answer(200, req'.text))]_vars

UpdateWitness ==
    /\ req.op = "update"
    /\ res.status = 200
    /\ was = Answer(200, <<"x", "x">>)
    /\ req.text = <<"x">>
    /\ Peek(req.name) = Answer(200, <<"x">>)

Listed(body) == {body[i].name : i \in DOMAIN body}

\* C6: ListAll answers 200 with exactly one entry per stored note: a name
\* is listed exactly when a Read of it answers 200, and each entry's text is
\* what that Read returns.  Stated for the names without a path separator.
ListAllExact ==
    req.op = "list" =>
        /\ res.status = 200
        /\ \A i \in DOMAIN res.body :
              Peek(res.body[i].name) = Answer(200, res.body[i].text)
        /\ \A n \in FlatNames :
              Stored(n) <=> n \in Listed(res.body)
        /\ \A i, j \in DOMAIN res.body :
              res.body[i].name = res.body[j].name => i = j

\* C7: a Create, Update or Delete of a name leaves the existence and the
\* content of every other name as they were; a Create answered 201 adds
\* exactly one file and a Delete answered 200 removes exactly one.
NotesIndependent ==
    [][(Served("create") \/ Served("update") \/ Served("delete")) =>
          /\ \A m \in Names \ {req'.name} : PeekAfter(m) = Peek(m)
          /\ (req'.op = "create" /\ res'.status = 201) =>
                Cardinality(DOMAIN files') = Cardinality(DOMAIN files) + 1
          /\ (req'.op = "delete" /\ res'.status = 200) =>
                Cardinality(DOMAIN files') = Cardinality(DOMAIN files) - 1]_vars

StartupGate ==
    /\ CacheDir \notin dirs =>
          /\ phase # "listening"
          /\ files = <<>> /\ req = NoRequest /\ res = NoResponse
          /\ phase = "boot" => ENABLED StartupFail
    /\ phase = "exited" => (exitCode # 0 /\ CacheDir \notin dirs)
    /\ CacheDir \in dirs =>
          /\ phase # "exited"
          /\ phase = "boot" => ENABLED Listen

StartupFailWitness == phase = "exited" /\ exitCode = 1 /\ CacheDir \notin dirs

\* C10: a name becomes stored only by a Create of its file answered 201
\* and stops being stored only by a Delete of its file answered 200; a
\* Create answered 201 finds the name absent, an Update answered 200 finds
\* and leaves it stored; Read, ListAll and every operation not answered
\* 200 or 201 change no file.
NoteStateMachine ==
    [][/\ (files' # files \/ dirs' # dirs) =>
             \A m \in Names :
                /\ (~Stored(m) /\ StoredAfter(m)) =>
                      /\ req'.op = "create" /\ res'.status = 201
                      /\ NotePath(req'.name) = NotePath(m)
                /\ (Stored(m) /\ ~StoredAfter(m)) =>
                      /\ req'.op = "delete" /\ res'.status = 200
                      /\ NotePath(req'.name) = NotePath(m)
       /\ (req'.op = "create" /\ res'.status = 201) =>
             (~Stored(req'.name) /\ StoredAfter(req'.name))
       /\ (req'.op = "update" /\ res'.status = 200) =>
             (Stored(req'.name) /\ StoredAfter(req'.name))
       /\ (req'.op \in {"read", "list"} \/ res'.status \notin {200, 201}) =>
             (files' = files /\ dirs' = dirs)]_vars

RejectedWitness ==
    /\ req.op = "update"
    /\ res.status = 404
    /\ was.status = 404
    /\ ~Stored(req.name)
    /\ \E m \in Names : Stored(m)

====
